---- MODULE Spec2Model ----
(***************************************************************************)
(* ClientStore.js (latest revision, src/ClientStore.js lines 190-418).     *)
(*                                                                         *)
(* A ClientStore instance binds get/set/expire at construction either to   *)
(* the WebStorage functions (localStorage / sessionStorage) or to the      *)
(* cookie functions (document.cookie).  Text is modelled as a sequence of  *)
(* one-character strings, so that JSON.stringify, JSON.parse, the cookie   *)
(* string written by setCookie and the split/scan of getCookie are         *)
(* computed character by character, as the code and the browser do.        *)
(*                                                                         *)
(* JavaScript values are tagged records:                                   *)
(*   [t |-> "undefined"], [t |-> "null"], [t |-> "nan"],                   *)
(*   [t |-> "bool", b |-> ..], [t |-> "num", n |-> ..],                    *)
(*   [t |-> "str", s |-> <<chars>>], [t |-> "obj", m |-> <<members>>],     *)
(*   [t |-> "arr", e |-> <<elements>>].                                    *)
(* The JSON texts of the model are integers, strings with the escapes \"   *)
(* and \\, the three literals, objects and arrays; no text of the model    *)
(* holds a fraction, an exponent or a \u escape.                           *)
(***************************************************************************)
EXTENDS Integers, Sequences, FiniteSets, TLC

(***************************************************************************)
(* JavaScript values                                                       *)
(***************************************************************************)
Undefined == [t |-> "undefined"]

Null == [t |-> "null"]

NaN == [t |-> "nan"]

Bool(b) == [t |-> "bool", b |-> b]

Num(n) == [t |-> "num", n |-> n]

Str(s) == [t |-> "str", s |-> s]

Obj(m) == [t |-> "obj", m |-> m]

Arr(e) == [t |-> "arr", e |-> e]

Digits == <<"0", "1", "2", "3", "4", "5", "6", "7", "8", "9">>

IsDigit(c) == \E d \in 1..10 : Digits[d] = c

DigitVal(c) == (CHOOSE d \in 1..10 : Digits[d] = c) - 1

IsSpace(c) == c = " "

RECURSIVE NatToChars(_)
\* Number::toString of a non-negative integer
NatToChars(n) ==
  IF n < 10 THEN <<Digits[n + 1]>>
  ELSE NatToChars(n \div 10) \o <<Digits[(n % 10) + 1]>>

\* Number::toString of an integer
NumToChars(n) == IF n < 0 THEN <<"-">> \o NatToChars(0 - n) ELSE NatToChars(n)

RECURSIVE CharsToNat(_, _)
\* the value of a run of decimal digits, most significant first
CharsToNat(s, acc) ==
  IF s = << >> THEN acc
  ELSE CharsToNat(Tail(s), acc * 10 + DigitVal(Head(s)))

\* first index >= i of s that does not hold a space (Len(s)+1 if none)
RECURSIVE SkipWs(_, _)
SkipWs(s, i) ==
  IF i <= Len(s) /\ IsSpace(s[i]) THEN SkipWs(s, i + 1) ELSE i

\* first index >= i of s that does not hold a digit (Len(s)+1 if none)
RECURSIVE SkipDigits(_, _)
SkipDigits(s, i) ==
  IF i <= Len(s) /\ IsDigit(s[i]) THEN SkipDigits(s, i + 1) ELSE i

\* s.substring(i-1) has the prefix p
HasPrefixAt(s, i, p) ==
  /\ i + Len(p) - 1 <= Len(s)
  /\ SubSeq(s, i, i + Len(p) - 1) = p

(***************************************************************************)
(* JSON.stringify                                                          *)
(***************************************************************************)
RECURSIVE QuoteChars(_)
\* the body of a JSON string literal: " and \ are escaped
QuoteChars(s) ==
  IF s = << >> THEN << >>
  ELSE (IF Head(s) \in {"\"", "\\"} THEN <<"\\", Head(s)>> ELSE <<Head(s)>>)
       \o QuoteChars(Tail(s))

JSONQuote(s) == <<"\"">> \o QuoteChars(s) \o <<"\"">>

ExpirationName == <<"e", "x", "p", "i", "r", "a", "t", "i", "o", "n">>

DataName == <<"d", "a", "t", "a">>

NullLit == <<"n", "u", "l", "l">>

TrueLit == <<"t", "r", "u", "e">>

FalseLit == <<"f", "a", "l", "s", "e">>

\* JSON.stringify of a primitive: a number, null or a string
StringifyPrim(v) ==
  CASE v.t = "num" -> NumToChars(v.n)
    [] v.t = "str" -> JSONQuote(v.s)
    [] OTHER -> NullLit

\* JSON.stringify({expiration: expiration, data: value}); a member whose
\* value is undefined is left out
JSONStringifyPayload(expiration, value) ==
  <<"{">> \o JSONQuote(ExpirationName) \o <<":">> \o StringifyPrim(expiration)
  \o (IF value = Undefined THEN << >>
      ELSE <<",">> \o JSONQuote(DataName) \o <<":">> \o StringifyPrim(value))
  \o <<"}">>

(***************************************************************************)
(* JSON.parse: recursive descent; a result is [ok, v, i] with i the index  *)
(* after the value; ok = FALSE is the SyntaxError.                         *)
(***************************************************************************)
ParseFail == [ok |-> FALSE, v |-> Undefined, i |-> 0]

ParseOk(v, i) == [ok |-> TRUE, v |-> v, i |-> i]

RECURSIVE ParseStringBody(_, _, _)
\* s[i..] after the opening quote; acc is the text read so far
ParseStringBody(s, i, acc) ==
  IF i > Len(s) THEN ParseFail
  ELSE IF s[i] = "\"" THEN ParseOk(Str(acc), i + 1)
  ELSE IF s[i] = "\\"
       THEN IF i + 1 <= Len(s) /\ s[i + 1] \in {"\"", "\\"}
            THEN ParseStringBody(s, i + 2, Append(acc, s[i + 1]))
            ELSE ParseFail
  ELSE ParseStringBody(s, i + 1, Append(acc, s[i]))

ParseNumber(s, i) ==
  LET neg == s[i] = "-"
      d0 == IF neg THEN i + 1 ELSE i
      d1 == SkipDigits(s, d0)
      n == CharsToNat(SubSeq(s, d0, d1 - 1), 0)
  IN IF d1 = d0 THEN ParseFail
     ELSE IF s[d0] = "0" /\ d1 > d0 + 1 THEN ParseFail
     ELSE ParseOk(Num(IF neg THEN 0 - n ELSE n), d1)

RECURSIVE ParseValue(_, _)
RECURSIVE ParseMembers(_, _, _)
RECURSIVE ParseElements(_, _, _)

\* the members of an object after "{" or ","; acc the members read so far
ParseMembers(s, i, acc) ==
  LET k0 == SkipWs(s, i)
  IN IF k0 > Len(s) \/ s[k0] # "\"" THEN ParseFail
     ELSE LET k == ParseStringBody(s, k0 + 1, << >>)
          IN IF ~k.ok THEN ParseFail
             ELSE LET c == SkipWs(s, k.i)
                  IN IF c > Len(s) \/ s[c] # ":" THEN ParseFail
                     ELSE LET v == ParseValue(s, c + 1)
                          IN IF ~v.ok THEN ParseFail
                             ELSE LET e == SkipWs(s, v.i)
                                      mem == Append(acc, <<k.v.s, v.v>>)
                                  IN IF e > Len(s) THEN ParseFail
                                     ELSE IF s[e] = "}" THEN ParseOk(Obj(mem), e + 1)
                                     ELSE IF s[e] = "," THEN ParseMembers(s, e + 1, mem)
                                     ELSE ParseFail

\* the elements of an array after "[" or ","; acc the elements read so far
ParseElements(s, i, acc) ==
  LET v == ParseValue(s, i)
  IN IF ~v.ok THEN ParseFail
     ELSE LET e == SkipWs(s, v.i)
              els == Append(acc, v.v)
          IN IF e > Len(s) THEN ParseFail
             ELSE IF s[e] = "]" THEN ParseOk(Arr(els), e + 1)
             ELSE IF s[e] = "," THEN ParseElements(s, e + 1, els)
             ELSE ParseFail

ParseValue(s, i) ==
  LET j == SkipWs(s, i)
  IN IF j > Len(s) THEN ParseFail
     ELSE IF s[j] = "{"
          THEN LET c == SkipWs(s, j + 1)
               IN IF c <= Len(s) /\ s[c] = "}" THEN ParseOk(Obj(<< >>), c + 1)
                  ELSE ParseMembers(s, j + 1, << >>)
     ELSE IF s[j] = "["
          THEN LET c == SkipWs(s, j + 1)
               IN IF c <= Len(s) /\ s[c] = "]" THEN ParseOk(Arr(<< >>), c + 1)
                  ELSE ParseElements(s, j + 1, << >>)
     ELSE IF s[j] = "\"" THEN ParseStringBody(s, j + 1, << >>)
     ELSE IF s[j] = "-" \/ IsDigit(s[j]) THEN ParseNumber(s, j)
     ELSE IF HasPrefixAt(s, j, NullLit) THEN ParseOk(Null, j + 4)
     ELSE IF HasPrefixAt(s, j, TrueLit) THEN ParseOk(Bool(TRUE), j + 4)
     ELSE IF HasPrefixAt(s, j, FalseLit) THEN ParseOk(Bool(FALSE), j + 5)
     ELSE ParseFail

\* JSON.parse(x) for x a string or null (null is first converted to the
\* text "null"); [ok, v]: ok = FALSE when JSON.parse throws
JSONParse(x) ==
  LET s == IF x = Null THEN NullLit ELSE x.s
      r == ParseValue(s, 1)
  IN IF r.ok /\ SkipWs(s, r.i) > Len(s) THEN [ok |-> TRUE, v |-> r.v]
     ELSE [ok |-> FALSE, v |-> Undefined]

(***************************************************************************)
(* Property access and Number(), as used on the parsed payload             *)
(***************************************************************************)
RECURSIVE LastMember(_, _, _)
\* the value of the last member named name among m[1..i], or undefined
LastMember(m, i, name) ==
  IF i = 0 THEN Undefined
  ELSE IF m[i][1] = name THEN m[i][2]
  ELSE LastMember(m, i - 1, name)

\* v.name for name one of "expiration", "data"; ok = FALSE is the TypeError
\* of a property read on null or undefined
GetProp(v, name) ==
  IF v.t \in {"null", "undefined"} THEN [ok |-> FALSE, v |-> Undefined]
  ELSE IF v.t = "obj" THEN [ok |-> TRUE, v |-> LastMember(v.m, Len(v.m), name)]
  ELSE [ok |-> TRUE, v |-> Undefined]

RECURSIVE TrimRight(_)
TrimRight(s) ==
  IF s # << >> /\ IsSpace(s[Len(s)]) THEN TrimRight(SubSeq(s, 1, Len(s) - 1))
  ELSE s

\* s without leading and trailing spaces
Trim(s) == TrimRight(SubSeq(s, SkipWs(s, 1), Len(s)))

\* Number(s) for a string s: the empty string is 0, a signed run of digits
\* is its value, anything else NaN
StringToNumber(s) ==
  LET t == Trim(s)
      signed == t # << >> /\ t[1] \in {"-", "+"}
      d == IF signed THEN Tail(t) ELSE t
  IN IF t = << >> THEN Num(0)
     ELSE IF d # << >> /\ SkipDigits(d, 1) > Len(d)
          THEN Num(IF t[1] = "-" THEN 0 - CharsToNat(d, 0) ELSE CharsToNat(d, 0))
     ELSE NaN

RECURSIVE ToStringJS(_)
RECURSIVE JoinElements(_, _)

\* Array.prototype.join(","): null and undefined elements are empty
JoinElements(e, i) ==
  IF i > Len(e) THEN << >>
  ELSE (IF i > 1 THEN <<",">> ELSE << >>)
       \o (IF e[i].t \in {"null", "undefined"} THEN << >> ELSE ToStringJS(e[i]))
       \o JoinElements(e, i + 1)

\* String(v)
ToStringJS(v) ==
  CASE v.t = "str" -> v.s
    [] v.t = "num" -> NumToChars(v.n)
    [] v.t = "bool" -> IF v.b THEN TrueLit ELSE FalseLit
    [] v.t = "null" -> NullLit
    [] v.t = "arr" -> JoinElements(v.e, 1)
    [] v.t = "obj" -> <<"[", "o", "b", "j", "e", "c", "t", " ", "O", "b", "j", "e", "c", "t", "]">>
    [] OTHER -> <<"u", "n", "d", "e", "f", "i", "n", "e", "d">>

\* Number(v)
ToNumber(v) ==
  CASE v.t = "num" -> v
    [] v.t = "null" -> Num(0)
    [] v.t = "bool" -> Num(IF v.b THEN 1 ELSE 0)
    [] v.t = "str" -> StringToNumber(v.s)
    [] v.t = "arr" -> StringToNumber(ToStringJS(v))
    [] OTHER -> NaN

\* a > b for a number a and b a number or NaN (a comparison with NaN is false)
GreaterThan(a, b) == b.t = "num" /\ a > b.n

(***************************************************************************)
(* Bounds and input sets                                                   *)
(***************************************************************************)
\* the clock starts one second after the epoch; its readings are the start
\* of a second and the millisecond after it: 1000, 1001, 2000, 2001, ...
MsPerSecond == 1000

StartTime == MsPerSecond

MaxReading == 3

Times == {StartTime + MsPerSecond * (i \div 2) + (i % 2) : i \in 0..MaxReading}

Keys == {<<"k">>, <<"x">>}

\* values with the characters that matter to the two encodings
Values == {<<"a", ";", "b">>, <<"\"", "\\">>}

\* the expiration argument of set: left out, null, or a duration
Durations == {Undefined, Null, Num(1)}

\* the options object handed to the constructor; a field left out reads as
\* undefined
OptionSets ==
  [forceCookies : {Bool(FALSE), Bool(TRUE)},
   persistent : {Undefined, Bool(TRUE)},
   expirationMultiplier : {Undefined, Num(1000)}]

\* the key another script of the page writes, and what it writes there:
\* text that is not JSON, a JSON number, JSON null, and a JSON object whose
\* expiration member is a string
ForeignKey == <<"x">>

ForeignTexts ==
  {<<"h", "i">>,
   <<"4", "2">>,
   NullLit,
   <<"{">> \o JSONQuote(ExpirationName) \o <<":">> \o JSONQuote(<<"9">>) \o <<"}">>}

AreaNames == {"localStorage", "sessionStorage"}

(***************************************************************************)
(* The browser's collaborators: Storage areas and document.cookie          *)
(***************************************************************************)
\* Storage.getItem: the stored text, or null
GetItem(area, key) == IF key \in DOMAIN area THEN Str(area[key]) ELSE Null

\* Storage.setItem
SetItem(area, key, text) ==
  [k \in DOMAIN area \cup {key} |-> IF k = key THEN text ELSE area[k]]

\* Storage.removeItem
RemoveItem(area, key) == [k \in DOMAIN area \ {key} |-> area[k]]

\* the names a for-in loop over a Storage object yields after the stored
\* keys: the enumerable members of Storage.prototype
StoragePrototypeNames ==
  {<<"l", "e", "n", "g", "t", "h">>,
   <<"k", "e", "y">>,
   <<"g", "e", "t", "I", "t", "e", "m">>,
   <<"s", "e", "t", "I", "t", "e", "m">>,
   <<"r", "e", "m", "o", "v", "e", "I", "t", "e", "m">>,
   <<"c", "l", "e", "a", "r">>}

RECURSIVE IndexOf(_, _, _)
\* first index >= i of s holding c, or 0
IndexOf(s, c, i) ==
  IF i > Len(s) THEN 0
  ELSE IF s[i] = c THEN i
  ELSE IndexOf(s, c, i + 1)

RECURSIVE Split(_, _)
\* s.split(c)
Split(s, c) ==
  LET i == IndexOf(s, c, 1)
  IN IF i = 0 THEN <<s>>
     ELSE <<SubSeq(s, 1, i - 1)>> \o Split(SubSeq(s, i + 1, Len(s)), c)

ExpiresName == <<"e", "x", "p", "i", "r", "e", "s">>

GMT == <<" ", "G", "M", "T">>

\* Date.prototype.toUTCString: an HTTP-date, which has no milliseconds.
\* The date is written as the whole seconds since the epoch, then " GMT".
ToUTCString(ms) == NatToChars(ms \div MsPerSecond) \o GMT

\* the browser's reading of an HTTP-date: milliseconds, or NaN
ParseDate(s) ==
  LET t == Trim(s)
      n == Len(t) - Len(GMT)
  IN IF n >= 1 /\ HasPrefixAt(t, n + 1, GMT) /\ SkipDigits(t, 1) = n + 1
     THEN Num(CharsToNat(SubSeq(t, 1, n), 0) * MsPerSecond)
     ELSE NaN

NoExpiry == [t |-> "session"]

RECURSIVE CookieExpiry(_, _, _)
\* the expiry the attributes avs[i..] of a cookie string give: the last
\* expires attribute with a readable date
CookieExpiry(avs, i, acc) ==
  IF i > Len(avs) THEN acc
  ELSE LET eq == IndexOf(avs[i], "=", 1)
           nm == IF eq = 0 THEN Trim(avs[i]) ELSE Trim(SubSeq(avs[i], 1, eq - 1))
           d == IF eq = 0 THEN NaN ELSE ParseDate(SubSeq(avs[i], eq + 1, Len(avs[i])))
       IN CookieExpiry(avs, i + 1, IF nm = ExpiresName /\ d.t = "num" THEN d ELSE acc)

\* a cookie of the jar is dead once its expiry time is reached
CookieExpired(c, t) == c.expires.t = "num" /\ t >= c.expires.n

RECURSIVE JarWithout(_, _)
\* the jar without the cookie named name
JarWithout(jar, name) ==
  IF jar = << >> THEN << >>
  ELSE (IF Head(jar).name = name THEN << >> ELSE <<Head(jar)>>)
       \o JarWithout(Tail(jar), name)

\* the jar with cookie c: in the place of the cookie of that name, or last
JarWith(jar, c) ==
  IF \E i \in 1..Len(jar) : jar[i].name = c.name
  THEN [i \in 1..Len(jar) |-> IF jar[i].name = c.name THEN c ELSE jar[i]]
  ELSE Append(jar, c)

\* the assignment document.cookie = text at time t: the text up to the first
\* ";" is name=value (both trimmed), the rest are attributes; a text without
\* "=" or with an empty name is ignored; a cookie already expired deletes
\* the cookie of that name
CookieAssign(jar, text, t) ==
  LET parts == Split(text, ";")
      nv == parts[1]
      eq == IndexOf(nv, "=", 1)
      c == [name |-> Trim(SubSeq(nv, 1, eq - 1)),
            value |-> Trim(SubSeq(nv, eq + 1, Len(nv))),
            expires |-> CookieExpiry(parts, 2, NoExpiry)]
  IN IF eq = 0 \/ c.name = << >> THEN jar
     ELSE IF CookieExpired(c, t) THEN JarWithout(jar, c.name)
     ELSE JarWith(jar, c)

RECURSIVE CookieString(_, _)
\* the text document.cookie reads as at time t: the live cookies as
\* name=value, joined by "; "
CookieString(jar, t) ==
  IF jar = << >> THEN << >>
  ELSE LET rest == CookieString(Tail(jar), t)
           c == Head(jar)
       IN IF CookieExpired(c, t) THEN rest
          ELSE c.name \o <<"=">> \o c.value
               \o (IF rest = << >> THEN << >> ELSE <<";", " ">> \o rest)

(***************************************************************************)
(* ClientStore                                                             *)
(***************************************************************************)
VARIABLES
  options,         \* this.options
  storageDefined,  \* typeof(Storage) !== 'undefined' in the page
  binding,         \* the functions this.get, this.set, this.expire name
  storage,         \* localStorage and sessionStorage: key -> text
  cookieJar,       \* the cookies behind document.cookie, oldest first
  now,             \* new Date().getTime()
  last,            \* the latest call: operation, key, return value
  touched,         \* the collaborators the instance's calls have used
  written,         \* the latest set of the instance, until another script
                   \* rewrites its key
  sweep            \* expireWebStorage's place in its loop and its locals

vars == <<options, storageDefined, binding, storage, cookieJar, now, last,
          touched, written, sweep>>

\* v == true
LooseEqualsTrue(v) == v = Bool(TRUE) \/ v = Num(1)

\* ToBoolean(v) for undefined, booleans and numbers
Truthy(v) ==
  CASE v.t = "bool" -> v.b
    [] v.t = "num" -> v.n # 0
    [] v.t \in {"str", "obj", "arr"} -> v # Str(<< >>)
    [] OTHER -> FALSE

isWebStorageSupported(defined) == defined

\* shouldCookiesBeForced reading an option that is never given
shouldCookiesBeForcedMisnamed(opts) == LooseEqualsTrue(Undefined)

shouldCookiesBeForced(opts) == LooseEqualsTrue(opts.forceCookies)

webStorageShouldPersist(opts) == LooseEqualsTrue(opts.persistent)

getExpirationMultiplier(opts) ==
  IF Truthy(opts.expirationMultiplier) THEN opts.expirationMultiplier ELSE Num(1)

\* getWebStorageMechanism without the persistent option
getWebStorageMechanismSessionOnly(opts) == "sessionStorage"

getWebStorageMechanism(opts) ==
  IF webStorageShouldPersist(opts) THEN "localStorage" ELSE "sessionStorage"

\* the constructor choosing WebStorage when either condition holds
ClientStoreEitherCondition(opts, defined) ==
  IF ~shouldCookiesBeForced(opts) \/ isWebStorageSupported(defined)
  THEN [get |-> "getWebStorage", set |-> "setWebStorage",
        expire |-> "expireWebStorage"]
  ELSE [get |-> "getCookie", set |-> "setCookie", expire |-> "expire"]

\* the constructor binding expire to the sweep on both branches
ClientStoreAlwaysSweeping(opts, defined) ==
  IF ~shouldCookiesBeForced(opts) /\ isWebStorageSupported(defined)
  THEN [get |-> "getWebStorage", set |-> "setWebStorage",
        expire |-> "expireWebStorage"]
  ELSE [get |-> "getCookie", set |-> "setCookie", expire |-> "expireWebStorage"]

\* the constructor: the functions bound to get, set and expire; expire
\* stays the empty prototype function on the cookie branch
ClientStore(opts, defined) ==
  IF ~shouldCookiesBeForced(opts) /\ isWebStorageSupported(defined)
  THEN [get |-> "getWebStorage", set |-> "setWebStorage",
        expire |-> "expireWebStorage"]
  ELSE [get |-> "getCookie", set |-> "setCookie", expire |-> "expire"]

\* calculateExpirationTime without the multiplication
calculateExpirationTimeUnscaled(opts, expiration, t) ==
  IF expiration # Undefined /\ expiration # Null
  THEN Num(t + expiration.n)
  ELSE Null

\* the timestamp of now + expiration * multiplier, or null
calculateExpirationTime(opts, expiration, t) ==
  IF expiration # Undefined /\ expiration # Null
  THEN Num(t + expiration.n * getExpirationMultiplier(opts).n)
  ELSE Null

\* setWebStorage merging into the entry already stored: the expiration of
\* an entry that has one is kept
setWebStorageKeepingExpiration(opts, st, key, value, expiration, t) ==
  LET m == getWebStorageMechanism(opts)
      old == GetProp(JSONParse(GetItem(st[m], key)).v, ExpirationName).v
      exp == IF old.t = "num" THEN old
             ELSE calculateExpirationTime(opts, expiration, t)
  IN [st EXCEPT ![m] = SetItem(@, key, JSONStringifyPayload(exp, Str(value)))]

\* the storage areas after setWebStorage(key, value, expiration) at time t
setWebStorage(opts, st, key, value, expiration, t) ==
  LET exp == calculateExpirationTime(opts, expiration, t)
      m == getWebStorageMechanism(opts)
  IN [st EXCEPT ![m] = SetItem(@, key, JSONStringifyPayload(exp, Str(value)))]

\* the text of setCookie with the duration, not the timestamp, as the date
CookieTextRelative(opts, key, value, expiration, t) ==
  LET exp == calculateExpirationTime(opts, expiration, 0)
  IN key \o <<"=">> \o value
     \o (IF Truthy(exp)
         THEN <<";", " ">> \o ExpiresName \o <<"=">> \o ToUTCString(exp.n)
         ELSE << >>)

\* the text setCookie(key, value, expiration) assigns to document.cookie
CookieText(opts, key, value, expiration, t) ==
  LET exp == calculateExpirationTime(opts, expiration, t)
  IN key \o <<"=">> \o value
     \o (IF Truthy(exp)
         THEN <<";", " ">> \o ExpiresName \o <<"=">> \o ToUTCString(exp.n)
         ELSE << >>)

\* the jar after setCookie(key, value, expiration) at time t
setCookie(opts, jar, key, value, expiration, t) ==
  CookieAssign(jar, CookieText(opts, key, value, expiration, t), t)

\* getWebStorage giving null for an entry whose expiration has passed
getWebStorageEager(opts, st, key) ==
  LET storedData == GetItem(st[getWebStorageMechanism(opts)], key)
      parsed == JSONParse(storedData)
      data == GetProp(parsed.v, DataName)
      exp == GetProp(parsed.v, ExpirationName)
  IN IF storedData = Null THEN [ret |-> Null, threw |-> FALSE]
     ELSE IF parsed.ok /\ data.ok
          THEN IF exp.v # Null /\ GreaterThan(now, ToNumber(exp.v))
               THEN [ret |-> Null, threw |-> FALSE]
               ELSE [ret |-> data.v, threw |-> FALSE]
     ELSE [ret |-> storedData, threw |-> FALSE]

\* getWebStorage without its try/catch
getWebStorageUncaught(opts, st, key) ==
  LET storedData == GetItem(st[getWebStorageMechanism(opts)], key)
      parsed == JSONParse(storedData)
      data == GetProp(parsed.v, DataName)
  IN IF storedData = Null THEN [ret |-> Null, threw |-> FALSE]
     ELSE IF parsed.ok /\ data.ok THEN [ret |-> data.v, threw |-> FALSE]
     ELSE [ret |-> Undefined, threw |-> TRUE]

\* getWebStorage(key): [ret, threw]; a failure of JSON.parse or of the
\* read of .data is caught and the stored text returned
getWebStorage(opts, st, key) ==
  LET storedData == GetItem(st[getWebStorageMechanism(opts)], key)
      parsed == JSONParse(storedData)
      data == GetProp(parsed.v, DataName)
  IN IF storedData = Null THEN [ret |-> Null, threw |-> FALSE]
     ELSE IF parsed.ok /\ data.ok THEN [ret |-> data.v, threw |-> FALSE]
     ELSE [ret |-> storedData, threw |-> FALSE]

RECURSIVE ScanCookies(_, _, _)
\* the loop of getCookie over ca[i..]: the rest of the first element that,
\* without its leading spaces, starts with name; null when there is none
ScanCookies(ca, i, name) ==
  IF i > Len(ca) THEN Null
  ELSE LET c == SubSeq(ca[i], SkipWs(ca[i], 1), Len(ca[i]))
       IN IF HasPrefixAt(c, 1, name)
          THEN Str(SubSeq(c, Len(name) + 1, Len(c)))
          ELSE ScanCookies(ca, i + 1, name)

\* getCookie(key) at time t
getCookie(jar, key, t) ==
  ScanCookies(Split(CookieString(jar, t), ";"), 1, key \o <<"=">>)

\* the loop body removing every entry with an expiration, whatever the clock
ExpireKeyIgnoringClock(area, key, t) ==
  LET value == GetItem(area, key)
      payload == JSONParse(value)
      expirationStr == GetProp(payload.v, ExpirationName)
  IN IF ~payload.ok \/ ~expirationStr.ok THEN [area |-> area, threw |-> FALSE]
     ELSE IF expirationStr.v # Null /\ ToNumber(expirationStr.v).t = "num"
          THEN [area |-> RemoveItem(area, key), threw |-> FALSE]
     ELSE [area |-> area, threw |-> FALSE]

\* the loop body without the test for a null expiration
ExpireKeyNullAsNumber(area, key, t) ==
  LET value == GetItem(area, key)
      payload == JSONParse(value)
      expirationStr == GetProp(payload.v, ExpirationName)
  IN IF ~payload.ok \/ ~expirationStr.ok THEN [area |-> area, threw |-> FALSE]
     ELSE IF GreaterThan(t, ToNumber(expirationStr.v))
          THEN [area |-> RemoveItem(area, key), threw |-> FALSE]
     ELSE [area |-> area, threw |-> FALSE]

\* the loop body removing the entries it cannot read
ExpireKeyRemovingUnreadable(area, key, t) ==
  LET value == GetItem(area, key)
      payload == JSONParse(value)
      expirationStr == GetProp(payload.v, ExpirationName)
  IN IF ~payload.ok \/ ~expirationStr.ok
     THEN [area |-> RemoveItem(area, key), threw |-> FALSE]
     ELSE IF expirationStr.v # Null /\ GreaterThan(t, ToNumber(expirationStr.v))
          THEN [area |-> RemoveItem(area, key), threw |-> FALSE]
     ELSE [area |-> area, threw |-> FALSE]

\* the body of expireWebStorage's loop for one key: [area, threw]; a
\* failure of JSON.parse or of the read of .expiration is caught
ExpireKey(area, key, t) ==
  LET value == GetItem(area, key)
      payload == JSONParse(value)
      expirationStr == GetProp(payload.v, ExpirationName)
  IN IF ~payload.ok \/ ~expirationStr.ok THEN [area |-> area, threw |-> FALSE]
     ELSE IF expirationStr.v # Null /\ GreaterThan(t, ToNumber(expirationStr.v))
          THEN [area |-> RemoveItem(area, key), threw |-> FALSE]
     ELSE [area |-> area, threw |-> FALSE]

RECURSIVE ExpireLoopStoppingAtRemoval(_, _, _)
\* the for-in loop ending at its first removal
ExpireLoopStoppingAtRemoval(r, keys, t) ==
  IF keys = {} \/ r.threw THEN r
  ELSE LET key == CHOOSE k \in keys : TRUE
           n == ExpireKey(r.area, key, t)
       IN IF n.area # r.area THEN n
          ELSE ExpireLoopStoppingAtRemoval(n, keys \ {key}, t)

RECURSIVE ExpireLoop(_, _, _)
\* the for-in loop of expireWebStorage over the names in keys
ExpireLoop(r, keys, t) ==
  IF keys = {} \/ r.threw THEN r
  ELSE LET key == CHOOSE k \in keys : TRUE
       IN ExpireLoop(ExpireKey(r.area, key, t), keys \ {key}, t)

\* expireWebStorage() at time t: [st, threw]
expireWebStorage(opts, st, t) ==
  LET m == getWebStorageMechanism(opts)
      r == ExpireLoop([area |-> st[m], threw |-> FALSE],
                      DOMAIN st[m] \cup StoragePrototypeNames, t)
  IN [st |-> [st EXCEPT ![m] = r.area], threw |-> r.threw]

(***************************************************************************)
(* State machine                                                           *)
(***************************************************************************)
NotWritten == [t |-> "none"]

NoKey == << >>

\* no expireWebStorage is under way
Idle == [pc |-> "idle"]

Call(op, key, ret, threw, fresh) ==
  [op |-> op, key |-> key, ret |-> ret, threw |-> threw, fresh |-> fresh]

Init ==
  /\ options \in OptionSets
  /\ storageDefined \in BOOLEAN
  /\ binding = ClientStore(options, storageDefined)
  /\ storage = [a \in AreaNames |-> << >>]
  /\ cookieJar = << >>
  /\ now = StartTime
  /\ last = Call("new", NoKey, Undefined, FALSE, FALSE)
  /\ touched = {}
  /\ written = NotWritten
  /\ sweep = Idle

\* set choosing its backend anew at every call, from the page as it is then
SetReevaluating(key, value, expiration) ==
  /\ IF ClientStore(options, storageDefined).set = "setWebStorage"
     THEN /\ storage' = setWebStorage(options, storage, key, value, expiration, now)
          /\ touched' = touched \cup {getWebStorageMechanism(options)}
          /\ UNCHANGED cookieJar
     ELSE /\ cookieJar' = setCookie(options, cookieJar, key, value, expiration, now)
          /\ touched' = touched \cup {"document.cookie"}
          /\ UNCHANGED storage
  /\ written' = [t |-> "set", key |-> key, v |-> value, d |-> expiration, at |-> now]
  /\ last' = Call("set", key, Undefined, FALSE, FALSE)
  /\ UNCHANGED sweep
  /\ UNCHANGED <<options, storageDefined, binding, now>>

\* store.set(key, value, expiration)
Set(key, value, expiration) ==
  /\ IF binding.set = "setWebStorage"
     THEN /\ storage' = setWebStorage(options, storage, key, value, expiration, now)
          /\ touched' = touched \cup {getWebStorageMechanism(options)}
          /\ UNCHANGED cookieJar
     ELSE /\ cookieJar' = setCookie(options, cookieJar, key, value, expiration, now)
          /\ touched' = touched \cup {"document.cookie"}
          /\ UNCHANGED storage
  /\ written' = [t |-> "set", key |-> key, v |-> value, d |-> expiration, at |-> now]
  /\ last' = Call("set", key, Undefined, FALSE, FALSE)
  /\ UNCHANGED sweep
  /\ UNCHANGED <<options, storageDefined, binding, now>>

\* get removing the entry it reads once its expiration has passed
GetEvicting(key) ==
  /\ LET fresh == last.op = "set" /\ last.key = key
     IN IF binding.get = "getWebStorage"
        THEN LET r == getWebStorage(options, storage, key)
                 m == getWebStorageMechanism(options)
             IN /\ last' = Call("get", key, r.ret, r.threw, fresh)
                /\ touched' = touched \cup {m}
                /\ storage' = [storage EXCEPT ![m] = ExpireKey(@, key, now).area]
        ELSE /\ last' = Call("get", key, getCookie(cookieJar, key, now), FALSE, fresh)
             /\ touched' = touched \cup {"document.cookie"}
             /\ UNCHANGED storage
  /\ UNCHANGED sweep
  /\ UNCHANGED <<options, storageDefined, binding, cookieJar, now, written>>

\* store.get(key); fresh: the call before was a set of the same key
Get(key) ==
  /\ LET fresh == last.op = "set" /\ last.key = key
     IN IF binding.get = "getWebStorage"
        THEN LET r == getWebStorage(options, storage, key)
             IN /\ last' = Call("get", key, r.ret, r.threw, fresh)
                /\ touched' = touched \cup {getWebStorageMechanism(options)}
        ELSE /\ last' = Call("get", key, getCookie(cookieJar, key, now), FALSE, fresh)
             /\ touched' = touched \cup {"document.cookie"}
  /\ UNCHANGED sweep
  /\ UNCHANGED <<options, storageDefined, binding, storage, cookieJar, now, written>>

\* store.expire()
Expire ==
  /\ IF binding.expire = "expireWebStorage"
     THEN LET r == expireWebStorage(options, storage, now)
          IN /\ storage' = r.st
             /\ last' = Call("expire", NoKey, Undefined, r.threw, FALSE)
             /\ touched' = touched \cup {getWebStorageMechanism(options)}
     ELSE /\ last' = Call("expire", NoKey, Undefined, FALSE, FALSE)
          /\ UNCHANGED <<storage, touched>>
  /\ UNCHANGED sweep
  /\ UNCHANGED <<options, storageDefined, binding, cookieJar, now, written>>

\* the clock advances
Tick ==
  /\ \E t \in Times : t > now /\ now' = t
  /\ last' = Call("tick", NoKey, Undefined, FALSE, FALSE)
  /\ UNCHANGED sweep
  /\ UNCHANGED <<options, storageDefined, binding, storage, cookieJar, touched, written>>

\* another script of the page stores text under ForeignKey, in the area
\* the instance works on
ForeignSetItem(text) ==
  /\ binding.set = "setWebStorage"
  /\ storage' = [storage EXCEPT ![getWebStorageMechanism(options)] =
                                  SetItem(@, ForeignKey, text)]
  /\ written' = IF /\ written.t = "set"
                   /\ written.key = ForeignKey
                THEN NotWritten
                ELSE written
  /\ last' = Call("foreign", NoKey, Undefined, FALSE, FALSE)
  /\ UNCHANGED sweep
  /\ UNCHANGED <<options, storageDefined, binding, cookieJar, now, touched>>

Next ==
  \/ \E k \in Keys, v \in Values, d \in Durations : Set(k, v, d)
  \/ \E k \in Keys : Get(k)
  \/ Expire
  \/ Tick
  \/ \E text \in ForeignTexts : ForeignSetItem(text)

Spec == Init /\ [][Next]_vars

(***************************************************************************)
(* The page around the instance: what earlier visits left behind, the      *)
(* loading of the library, the construction, and a change of the page's    *)
(* Storage global                                                          *)
(***************************************************************************)
\* before new ClientStore(options): get, set and expire name nothing
NoInstance == [get |-> "none", set |-> "none", expire |-> "none"]

\* what an earlier visit left in a storage area, both written by set: an
\* entry under "k" whose expiration passed before the page was opened, and
\* one under "x" that expires once the clock has moved on from StartTime
LeftoverArea ==
  SetItem(SetItem(<< >>, <<"k">>,
                  JSONStringifyPayload(Num(StartTime - 1), Str(<<"a">>))),
          <<"x">>, JSONStringifyPayload(Num(StartTime), Str(<<"b">>)))

\* what an earlier visit left in the cookie jar: a session cookie "k"
LeftoverJar == <<[name |-> <<"k">>, value |-> <<"c">>, expires |-> NoExpiry]>>

\* the page before the library's script has run
InitPage ==
  /\ options \in OptionSets
  /\ storageDefined \in BOOLEAN
  /\ binding = NoInstance
  /\ storage = [a \in AreaNames |-> LeftoverArea]
  /\ cookieJar = LeftoverJar
  /\ now = StartTime
  /\ last = Call("page", NoKey, Undefined, FALSE, FALSE)
  /\ touched = {}
  /\ written = NotWritten
  /\ sweep = Idle

\* the library's script runs: it defines ClientStore and its prototype and
\* assigns module.exports; it constructs nothing and calls nothing
Load ==
  /\ last.op = "page"
  /\ last' = Call("load", NoKey, Undefined, FALSE, FALSE)
  /\ UNCHANGED sweep
  /\ UNCHANGED <<options, storageDefined, binding, storage, cookieJar, now,
                 touched, written>>

\* new ClientStore(options), once the library is loaded
Construct ==
  /\ last.op = "load"
  /\ binding' = ClientStore(options, storageDefined)
  /\ last' = Call("new", NoKey, Undefined, FALSE, FALSE)
  /\ UNCHANGED sweep
  /\ UNCHANGED <<options, storageDefined, storage, cookieJar, now, touched,
                 written>>

\* the page's Storage global is deleted or restored while the instance lives
StorageAvailabilityChange ==
  /\ binding # NoInstance
  /\ storageDefined' = ~storageDefined
  /\ last' = Call("environment", NoKey, Undefined, FALSE, FALSE)
  /\ UNCHANGED sweep
  /\ UNCHANGED <<options, binding, storage, cookieJar, now, touched, written>>

\* the value the page's script stores
PageValue == <<"v">>

\* the instance's calls, once it exists
PageSet(key, value, expiration) ==
  binding # NoInstance /\ Set(key, value, expiration)

PageGet(key) == binding # NoInstance /\ Get(key)

PageExpire == binding # NoInstance /\ Expire

PageTick == binding # NoInstance /\ Tick

PageNext ==
  \/ Load
  \/ Construct
  \/ StorageAvailabilityChange
  \/ \E k \in Keys, d \in Durations : PageSet(k, PageValue, d)
  \/ \E k \in Keys : PageGet(k)
  \/ PageExpire
  \/ PageTick

SpecPage == InitPage /\ [][PageNext]_vars

(***************************************************************************)
(* getCookie over the cookie strings a page can present                    *)
(***************************************************************************)
\* names and values of the cookies in the jar: names that contain or
\* extend "k", and a value with "=" in it
CookieNames == {<<"k">>, <<"k", "x">>, <<"x", "k">>}

CookieValues == {<<"1">>, <<"2">>, <<"x", "=", "3">>}

JarCookies == [name : CookieNames, value : CookieValues, expires : {NoExpiry}]

\* the most cookies in the jar; two of one name are cookies of two paths
MaxJar == 2

\* the keys asked for
CookieKeys == {<<"k">>, <<"x">>, <<"k", "=", "x">>}

\* a cookie-bound instance on a page with cookies
InitCookie ==
  /\ options = [forceCookies |-> Bool(TRUE), persistent |-> Undefined,
                expirationMultiplier |-> Undefined]
  /\ storageDefined = TRUE
  /\ binding = ClientStore(options, storageDefined)
  /\ storage = [a \in AreaNames |-> << >>]
  /\ cookieJar \in UNION {[1..n -> JarCookies] : n \in 0..MaxJar}
  /\ now = StartTime
  /\ last = Call("new", NoKey, Undefined, FALSE, FALSE)
  /\ touched = {}
  /\ written = NotWritten
  /\ sweep = Idle

\* get of a key, and set of a key to a value without duration
CookieNext ==
  \/ \E k \in CookieKeys : Get(k)
  \/ \E k \in CookieKeys, v \in CookieValues : Set(k, v, Undefined)

SpecCookie == InitCookie /\ [][CookieNext]_vars

(***************************************************************************)
(* expireWebStorage step by step: localStorage is shared with the other    *)
(* tabs of the origin, whose scripts run between the steps of this one's   *)
(***************************************************************************)
\* the value the other tab stores
FreshValue == <<"f">>

\* one instance with persistent: true, and one like it in another tab
InitRace ==
  /\ options = [forceCookies |-> Bool(FALSE), persistent |-> Bool(TRUE),
                expirationMultiplier |-> Undefined]
  /\ storageDefined = TRUE
  /\ binding = ClientStore(options, storageDefined)
  /\ storage = [a \in AreaNames |-> << >>]
  /\ cookieJar = << >>
  /\ now = StartTime
  /\ last = Call("new", NoKey, Undefined, FALSE, FALSE)
  /\ touched = {}
  /\ written = NotWritten
  /\ sweep = Idle

\* expire() is called: the clock is read once and the for-in loop starts
\* over the keys stored then and the names of Storage.prototype
SweepBegin ==
  /\ sweep.pc = "idle"
  /\ binding.expire = "expireWebStorage"
  /\ sweep' = [pc |-> "loop",
               keys |-> DOMAIN storage[getWebStorageMechanism(options)]
                        \cup StoragePrototypeNames,
               t |-> now, key |-> NoKey, value |-> Null, removed |-> Null]
  /\ touched' = touched \cup {getWebStorageMechanism(options)}
  /\ last' = Call("expireWebStorage", NoKey, Undefined, FALSE, FALSE)
  /\ UNCHANGED <<options, storageDefined, binding, storage, cookieJar, now, written>>

\* the loop takes a key: getItem, JSON.parse and the comparison with the
\* clock read at the start, all on the value read here
SweepRead ==
  /\ sweep.pc = "loop"
  /\ sweep.keys # {}
  /\ LET key == CHOOSE k \in sweep.keys : TRUE
         area == storage[getWebStorageMechanism(options)]
         value == GetItem(area, key)
         remove == ExpireKey(area, key, sweep.t).area # area
     IN /\ sweep' = [sweep EXCEPT !.pc = IF remove THEN "remove" ELSE "loop",
                                  !.keys = @ \ {key},
                                  !.key = key,
                                  !.value = value,
                                  !.removed = Null]
        /\ last' = Call("getItem", key, value, FALSE, FALSE)
  /\ UNCHANGED <<options, storageDefined, binding, storage, cookieJar, now,
                 touched, written>>

\* removeItem only when the key still holds the text that was read
SweepRemoveIfUnchanged ==
  /\ sweep.pc = "remove"
  /\ LET m == getWebStorageMechanism(options)
         unchanged == GetItem(storage[m], sweep.key) = sweep.value
     IN /\ storage' = IF unchanged
                      THEN [storage EXCEPT ![m] = RemoveItem(@, sweep.key)]
                      ELSE storage
        /\ sweep' = [sweep EXCEPT !.pc = "loop",
                                  !.removed = IF unchanged THEN sweep.value ELSE Null]
  /\ last' = Call("removeItem", sweep.key, Undefined, FALSE, FALSE)
  /\ UNCHANGED <<options, storageDefined, binding, cookieJar, now, touched, written>>

\* wsMechanism.removeItem(key) for the key whose value was found expired;
\* removed is the text the key held when the call was made
SweepRemove ==
  /\ sweep.pc = "remove"
  /\ LET m == getWebStorageMechanism(options)
     IN /\ storage' = [storage EXCEPT ![m] = RemoveItem(@, sweep.key)]
        /\ sweep' = [sweep EXCEPT !.pc = "loop",
                                  !.removed = GetItem(storage[m], sweep.key)]
  /\ last' = Call("removeItem", sweep.key, Undefined, FALSE, FALSE)
  /\ UNCHANGED <<options, storageDefined, binding, cookieJar, now, touched, written>>

\* the loop is over and expire() returns
SweepEnd ==
  /\ sweep.pc = "loop"
  /\ sweep.keys = {}
  /\ sweep' = Idle
  /\ last' = Call("expire", NoKey, Undefined, FALSE, FALSE)
  /\ UNCHANGED <<options, storageDefined, binding, storage, cookieJar, now,
                 touched, written>>

\* the instance of the other tab calls set(key, FreshValue, expiration)
OtherTabSet(key, expiration) ==
  /\ storage' = setWebStorage(options, storage, key, FreshValue, expiration, now)
  /\ written' = IF written.t = "set" /\ written.key = key
                THEN NotWritten
                ELSE written
  /\ last' = Call("foreign", NoKey, Undefined, FALSE, FALSE)
  /\ UNCHANGED sweep
  /\ UNCHANGED <<options, storageDefined, binding, cookieJar, now, touched>>

\* this tab's own set, between its calls of expire()
RaceSet(key, value, expiration) ==
  sweep.pc = "idle" /\ Set(key, value, expiration)

RaceNext ==
  \/ SweepBegin
  \/ SweepRead
  \/ SweepRemove
  \/ SweepEnd
  \/ \E k \in Keys, d \in Durations : OtherTabSet(k, d)
  \/ \E k \in Keys, d \in Durations : RaceSet(k, PageValue, d)
  \/ Tick

SpecRace == InitRace /\ [][RaceNext]_vars

(***************************************************************************)
(* Two instances side by side, one bound to WebStorage and one to cookies, *)
(* given the same calls                                                    *)
(***************************************************************************)
\* the options of the cookie-bound instance: those of the other one, with
\* forceCookies
CookieOptions == [options EXCEPT !.forceCookies = Bool(TRUE)]

\* both instances on a page with empty storage areas and no cookies
InitPair ==
  /\ options \in [forceCookies : {Bool(FALSE)},
                  persistent : {Undefined, Bool(TRUE)},
                  expirationMultiplier : {Undefined}]
  /\ storageDefined = TRUE
  /\ binding = ClientStore(options, storageDefined)
  /\ storage = [a \in AreaNames |-> << >>]
  /\ cookieJar = << >>
  /\ now = StartTime
  /\ last = Call("new", NoKey, Undefined, FALSE, FALSE)
  /\ touched = {}
  /\ written = NotWritten
  /\ sweep = Idle

\* set(key, value) without duration on both instances
PairSet(key, value) ==
  /\ ClientStore(options, storageDefined).set = "setWebStorage"
  /\ ClientStore(CookieOptions, storageDefined).set = "setCookie"
  /\ storage' = setWebStorage(options, storage, key, value, Undefined, now)
  /\ cookieJar' = setCookie(CookieOptions, cookieJar, key, value, Undefined, now)
  /\ touched' = touched \cup {getWebStorageMechanism(options), "document.cookie"}
  /\ written' = [t |-> "set", key |-> key, v |-> value, d |-> Undefined, at |-> now]
  /\ last' = Call("set", key, Undefined, FALSE, FALSE)
  /\ UNCHANGED <<options, storageDefined, binding, now, sweep>>

\* get(key) on both instances: ret is what the WebStorage-bound one
\* returns, other what the cookie-bound one returns
PairGet(key) ==
  /\ ClientStore(options, storageDefined).get = "getWebStorage"
  /\ ClientStore(CookieOptions, storageDefined).get = "getCookie"
  /\ LET r == getWebStorage(options, storage, key)
     IN last' = [op |-> "get", key |-> key, ret |-> r.ret, threw |-> r.threw,
                 fresh |-> last.op = "set" /\ last.key = key,
                 other |-> getCookie(cookieJar, key, now)]
  /\ touched' = touched \cup {getWebStorageMechanism(options), "document.cookie"}
  /\ UNCHANGED <<options, storageDefined, binding, storage, cookieJar, now,
                 written, sweep>>

PairNext ==
  \/ \E k \in Keys, v \in Values : PairSet(k, v)
  \/ \E k \in Keys : PairGet(k)

SpecPair == InitPair /\ [][PairNext]_vars

(***************************************************************************)
(* Vocabulary of the properties                                            *)
(***************************************************************************)
\* the instance is bound to the WebStorage functions
WebBound == binding.set = "setWebStorage"

\* the storage area the instance's WebStorage functions work on
Area == storage[getWebStorageMechanism(options)]

\* the multiplier the options configure: 1 when none is given
ConfiguredMultiplier ==
  IF options.expirationMultiplier = Undefined THEN 1
  ELSE options.expirationMultiplier.n

\* the latest set of the instance gave a duration
WrittenWithDuration == written.t = "set" /\ written.d.t = "num"

\* the latest set of the instance gave no duration
WrittenWithoutDuration == written.t = "set" /\ written.d \in {Undefined, Null}

\* insertionTime + d * multiplier of the latest set
WrittenExpiration == written.at + written.d.n * ConfiguredMultiplier

\* text is an Envelope: a JSON object with an expiration member that is a
\* number or null and a data member
IsEnvelope(text) ==
  LET p == JSONParse(Str(text))
  IN /\ p.ok
     /\ p.v.t = "obj"
     /\ GetProp(p.v, ExpirationName).v.t \in {"num", "null"}
     /\ GetProp(p.v, DataName).v # Undefined

(***************************************************************************)
(* Properties                                                              *)
(***************************************************************************)
\* C1: a get(k) that immediately follows a set(k, v) without duration
\* returns v, whichever backend the instance is bound to.
RoundTrip ==
  (last.op = "get" /\ last.fresh /\ written.d = Undefined)
    => last.ret = Str(written.v)

\* C2: on the WebStorage backend, while the clock is below
\* insertionTime + d * multiplier the entry of the latest set(k, v, d) is
\* still stored, whatever expire() calls have run; right after an expire()
\* run with the clock above it the entry is gone and get(k) gives null.
ExpirationCorrectness ==
  (WebBound /\ WrittenWithDuration) =>
    /\ now < WrittenExpiration =>
         /\ written.key \in DOMAIN Area
         /\ getWebStorage(options, storage, written.key).ret = Str(written.v)
    /\ (last.op = "expire" /\ now > WrittenExpiration) =>
         /\ written.key \notin DOMAIN Area
         /\ getWebStorage(options, storage, written.key).ret = Null

\* an expire() has just run past the expiration of the latest set and the
\* entry is gone
ExpirationCorrectnessWitness ==
  /\ WebBound /\ WrittenWithDuration
  /\ last.op = "expire" /\ now > WrittenExpiration
  /\ written.key \notin DOMAIN Area

\* C3: the entry of a set(k, v) without duration (left out or null) stays
\* stored through every expire() and every advance of the clock, until k
\* is written again.
NoExpirationPersistence ==
  WrittenWithoutDuration =>
    IF WebBound
    THEN /\ written.key \in DOMAIN Area
         /\ Area[written.key] = JSONStringifyPayload(Null, Str(written.v))
    ELSE \E i \in 1..Len(cookieJar) :
           cookieJar[i].name = written.key /\ ~CookieExpired(cookieJar[i], now)

\* an expire() has run on the WebStorage backend after the clock moved on
\* from a set without duration
NoExpirationPersistenceWitness ==
  /\ WebBound /\ WrittenWithoutDuration
  /\ last.op = "expire" /\ now > written.at
  /\ written.key \in DOMAIN Area

\* C4: the instance is bound to the WebStorage functions exactly when
\* forceCookies is not true and Storage is defined; otherwise get, set and
\* expire are the cookie functions, and its calls use only the backend it
\* is bound to.
BackendSelection ==
  LET web == options.forceCookies = Bool(FALSE) /\ storageDefined
  IN /\ web => /\ binding = [get |-> "getWebStorage", set |-> "setWebStorage",
                             expire |-> "expireWebStorage"]
               /\ touched \subseteq AreaNames
     /\ ~web => /\ binding = [get |-> "getCookie", set |-> "setCookie",
                              expire |-> "expire"]
                /\ touched \subseteq {"document.cookie"}

\* a WebStorage-bound instance has served a get
BackendSelectionWitness ==
  /\ binding.get = "getWebStorage"
  /\ last.op = "get"
  /\ touched # {}

\* C5: with forceCookies true no call of the instance reads or writes
\* localStorage or sessionStorage, even where Storage is defined.
BackendExclusivity ==
  options.forceCookies = Bool(TRUE) => touched \cap AreaNames = {}

\* with forceCookies true and Storage defined, the instance has set or got
\* and then expired
BackendExclusivityWitness ==
  /\ options.forceCookies = Bool(TRUE)
  /\ storageDefined
  /\ "document.cookie" \in touched
  /\ last.op = "expire"

CarriesNoPastExpiration(text, t) ==
  LET p == JSONParse(Str(text))
      e == GetProp(p.v, ExpirationName)
  IN \/ ~p.ok
     \/ ~e.ok
     \/ e.v \in {Undefined, Null}
     \/ ~GreaterThan(t, ToNumber(e.v))

\* C7: expire() leaves every entry whose text is not an Envelope as it is,
\* neither removed nor modified, whatever the clock shows.
ForeignDataUntouchedByExpire ==
  [][(last'.op = "expire" /\ WebBound) =>
        \A k \in DOMAIN Area :
          ~IsEnvelope(Area[k]) => (k \in DOMAIN Area' /\ Area'[k] = Area[k])]_vars

\* What expireWebStorage does keep: every entry whose text is not JSON, is
\* JSON null, or parses to a value whose expiration is missing, null or not
\* a number below the clock.
UnexpirableDataUntouchedByExpire ==
  [][(last'.op = "expire" /\ WebBound) =>
        \A k \in DOMAIN Area :
          CarriesNoPastExpiration(Area[k], now)
            => (k \in DOMAIN Area' /\ Area'[k] = Area[k])]_vars

\* an expire() has run over a text of another script and the text is still
\* stored
UnexpirableDataWitness ==
  /\ WebBound
  /\ last.op = "expire"
  /\ ForeignKey \in DOMAIN Area
  /\ Area[ForeignKey] \in ForeignTexts
  /\ CarriesNoPastExpiration(Area[ForeignKey], now)

\* C8: get(x) on the WebStorage backend returns the stored text of x as it
\* is when that text is not an Envelope.
ForeignDataReturnedByGet ==
  (WebBound /\ last.op = "get" /\ last.key \in DOMAIN Area
     /\ ~IsEnvelope(Area[last.key]))
    => last.ret = Str(Area[last.key])

\* C9: on the WebStorage backend get(k) returns the data of the latest
\* set(k, v, d) as long as the entry is stored, whatever the clock shows.
LazyExpiration ==
  (WebBound /\ last.op = "get" /\ written.t = "set"
     /\ written.key = last.key /\ last.key \in DOMAIN Area)
    => last.ret = Str(written.v)

\* a get has returned an entry whose expiration the clock has passed
LazyExpirationWitness ==
  /\ WebBound /\ last.op = "get" /\ WrittenWithDuration
  /\ written.key = last.key /\ last.key \in DOMAIN Area
  /\ now > WrittenExpiration
  /\ last.ret = Str(written.v)

\* C10: no call of get, set or expire ends in an error.
NeverThrow == ~last.threw

\* a get or an expire has run over a text that JSON.parse rejects or that
\* parses to null
NeverThrowWitness ==
  /\ WebBound
  /\ last.op \in {"get", "expire"}
  /\ ForeignKey \in DOMAIN Area
  /\ Area[ForeignKey] \in {<<"h", "i">>, NullLit}
  /\ last.op = "get" => last.key = ForeignKey

\* the area the persistent option names: localStorage when it is true,
\* sessionStorage when it is false or left out
ConfiguredArea ==
  IF options.persistent = Bool(TRUE) THEN "localStorage" ELSE "sessionStorage"

\* the area the persistent option does not name
OtherArea == CHOOSE a \in AreaNames : a # ConfiguredArea

\* C11: every get, set and expire of a WebStorage-bound instance uses only
\* the area the persistent option names: the other area and the cookie jar
\* stay as they are, and a get of a key that area does not hold gives null
\* whatever the other area holds.
StorageAreaConfinement ==
  [][(WebBound /\ last'.op \in {"get", "set", "expire"}) =>
        /\ storage'[OtherArea] = storage[OtherArea]
        /\ cookieJar' = cookieJar
        /\ touched' \subseteq {ConfiguredArea}
        /\ (last'.op = "get" /\ last'.key \notin DOMAIN storage[ConfiguredArea])
             => last'.ret = Null]_vars

\* a persistent instance has set, got nothing for a key only the session
\* area holds, or swept, with the clock past the expiration of what the
\* earlier visit left in sessionStorage and in the cookie jar
StorageAreaConfinementWitness ==
  /\ WebBound
  /\ options.persistent = Bool(TRUE)
  /\ last.op = "expire"
  /\ touched = {"localStorage"}
  /\ storage["localStorage"] = << >>
  /\ storage["sessionStorage"] = LeftoverArea
  /\ cookieJar = LeftoverJar

\* the collaborators of the backend the instance is bound to
BoundCollaborators == IF WebBound THEN AreaNames ELSE {"document.cookie"}

\* C12: once constructed, the instance is bound to the functions of exactly
\* one backend, and every later step, a change of the page's Storage global
\* included, leaves that binding as it is; every get, set and expire uses
\* the collaborators of that backend only and leaves the other backend's
\* store as it is, and a set stores through the bound backend.
BackendBindingFixed ==
  [][binding # NoInstance =>
        /\ binding' = binding
        /\ binding \in {[get |-> "getWebStorage", set |-> "setWebStorage",
                         expire |-> "expireWebStorage"],
                        [get |-> "getCookie", set |-> "setCookie",
                         expire |-> "expire"]}
        /\ touched' \subseteq BoundCollaborators
        /\ IF WebBound THEN cookieJar' = cookieJar ELSE storage' = storage
        /\ last'.op = "set" =>
             IF WebBound
             THEN GetItem(Area', last'.key) # Null
             ELSE "document.cookie" \in touched']_vars

\* an instance bound to WebStorage at construction has stored and read
\* back a value after the page lost its Storage global
BackendBindingFixedWitness ==
  /\ WebBound
  /\ ~storageDefined
  /\ last.op = "get"
  /\ last.ret = Str(PageValue)
  /\ cookieJar = LeftoverJar

\* text is an Envelope whose expiration is a timestamp below t
IsExpiredEnvelope(text, t) ==
  /\ IsEnvelope(text)
  /\ LET e == GetProp(JSONParse(Str(text)).v, ExpirationName).v
     IN e.t = "num" /\ t > e.n

\* C13: once the library's script has run on a page where Storage is
\* defined, sessionStorage, the area of an instance made without options,
\* holds no entry whose expiration had passed by then, without any call
\* of expire() by the page.
ExpireOnPageLoad ==
  (last.op = "load" /\ storageDefined) =>
    \A k \in DOMAIN storage["sessionStorage"] :
      ~IsExpiredEnvelope(storage["sessionStorage"][k], now)

\* C14: expire() on the WebStorage backend removes an entry of the area,
\* whoever wrote it, exactly when its text is an Envelope whose expiration
\* is a timestamp below the clock; an entry it keeps keeps its text, and
\* it adds none.
ExactEffectOfExpire ==
  [][(last'.op = "expire" /\ WebBound) =>
        /\ DOMAIN Area' \subseteq DOMAIN Area
        /\ \A k \in DOMAIN Area :
             /\ k \notin DOMAIN Area' <=> IsExpiredEnvelope(Area[k], now)
             /\ k \in DOMAIN Area' => Area'[k] = Area[k]]_vars

\* What expireWebStorage does: it removes an entry exactly when the text
\* parses to a value whose expiration converts to a number below the
\* clock, Envelope or not; an expiration equal to the clock is kept.
ExpireRemovesPastExpirations ==
  [][(last'.op = "expire" /\ WebBound) =>
        /\ DOMAIN Area' \subseteq DOMAIN Area
        /\ \A k \in DOMAIN Area :
             /\ k \notin DOMAIN Area' <=> ~CarriesNoPastExpiration(Area[k], now)
             /\ k \in DOMAIN Area' => Area'[k] = Area[k]]_vars

\* C15: a set(k, v, d) on the WebStorage backend over an entry already
\* stored at k leaves at k exactly the envelope of v with the expiration
\* now + d * multiplier of this call, or null when d is left out or null,
\* whatever the earlier entry held; with a null expiration no expire()
\* at any later clock reading removes it.
SetOverwrites ==
  [][(last'.op = "set" /\ WebBound /\ last'.key \in DOMAIN Area) =>
        LET p == JSONParse(GetItem(Area', last'.key))
            exp == IF written'.d \in {Undefined, Null} THEN Null
                   ELSE Num(now + written'.d.n * ConfiguredMultiplier)
        IN /\ p.ok
           /\ p.v = Obj(<<<<ExpirationName, exp>>, <<DataName, Str(written'.v)>>>>)
           /\ exp = Null =>
                \A t \in Times :
                  ExpireKey(Area', last'.key, t).area = Area']_vars

\* a set without duration has just replaced the entry an earlier set left
\* under "x" with an expiration: the clock has not moved, so no expire()
\* can have removed that entry
SetOverwritesWitness ==
  /\ WebBound
  /\ last.op = "set"
  /\ last.key = <<"x">>
  /\ now = StartTime
  /\ written.d = Undefined
  /\ Area[<<"x">>] = JSONStringifyPayload(Null, Str(PageValue))

\* the expiration a stored text carries
ExpirationOf(text) == GetProp(JSONParse(Str(text)).v, ExpirationName).v

CookieExpireNoOp ==
  [][(last'.op = "expire" /\ binding.set = "setCookie") =>
        /\ cookieJar' = cookieJar
        /\ storage' = storage
        /\ touched' = touched]_vars

\* a cookie-bound instance has called expire() with the clock past the
\* expiry of a cookie it set and past the expirations of the entries the
\* earlier visit left in both areas
CookieExpireNoOpWitness ==
  /\ binding.set = "setCookie"
  /\ last.op = "expire"
  /\ \E i \in 1..Len(cookieJar) : CookieExpired(cookieJar[i], now)
  /\ \A a \in AreaNames : storage[a] = LeftoverArea
  /\ IsExpiredEnvelope(LeftoverArea[<<"x">>], now)

\* the index of the first cookie of the jar named key, or 0
FirstNamed(key) ==
  IF \E i \in 1..Len(cookieJar) : cookieJar[i].name = key
  THEN CHOOSE i \in 1..Len(cookieJar) :
         /\ cookieJar[i].name = key
         /\ \A j \in 1..(i - 1) : cookieJar[j].name # key
  ELSE 0

\* C18: getCookie(key) returns the value of the first cookie of the cookie
\* string whose name is key, and null when the string has no cookie of
\* that name.
GetCookieExactKey ==
  (last.op = "get" /\ binding.get = "getCookie") =>
    last.ret = IF FirstNamed(last.key) = 0 THEN Null
               ELSE Str(cookieJar[FirstNamed(last.key)].value)

\* What getCookie does for a key without "=": it returns the value of the
\* first cookie named key, and null when there is none.
GetCookiePlainKey ==
  (last.op = "get" /\ binding.get = "getCookie" /\ IndexOf(last.key, "=", 1) = 0) =>
    last.ret = IF FirstNamed(last.key) = 0 THEN Null
               ELSE Str(cookieJar[FirstNamed(last.key)].value)

\* getCookie has passed over cookies whose names extend and contain "k"
\* and returned the first of two cookies named "k"
GetCookiePlainKeyWitness ==
  /\ last.op = "get" /\ last.key = <<"k">>
  /\ Len(cookieJar) = MaxJar
  /\ cookieJar[1].name = <<"k">> /\ cookieJar[MaxJar].name = <<"k">>
  /\ cookieJar[1].value # cookieJar[MaxJar].value
  /\ last.ret = Str(cookieJar[1].value)

\* C19: setCookie(key, value, d) assigns to document.cookie the text
\* key=value followed by "; expires=" and the HTTP-date of
\* now + d * multiplier when d is given, and the text key=value alone
\* when d is left out or null.
CookieSetFormat ==
  [][(last'.op = "set" /\ binding.set = "setCookie") =>
        LET d == written'.d
            kv == last'.key \o <<"=">> \o written'.v
            text == IF d \in {Undefined, Null} THEN kv
                    ELSE kv \o <<";", " ">> \o ExpiresName \o <<"=">>
                         \o ToUTCString(now + d.n * ConfiguredMultiplier)
        IN /\ CookieText(options, last'.key, written'.v, d, now) = text
           /\ cookieJar' = CookieAssign(cookieJar, text, now)
           /\ \A i \in 1..Len(cookieJar') :
                cookieJar'[i].name = last'.key =>
                  cookieJar'[i].expires =
                    IF d \in {Undefined, Null} THEN NoExpiry
                    ELSE ParseDate(ToUTCString(now + d.n * ConfiguredMultiplier))]_vars

\* a set with a duration has left a cookie whose expiry lies ahead of the
\* clock
CookieSetFormatWitness ==
  /\ binding.set = "setCookie"
  /\ last.op = "set"
  /\ written.d = Num(1)
  /\ \E i \in 1..Len(cookieJar) :
       /\ cookieJar[i].name = last.key
       /\ cookieJar[i].value = PageValue
       /\ cookieJar[i].expires.t = "num"
       /\ cookieJar[i].expires.n > now

\* C20: expire() decides on the value it read and removes by key: the
\* value read at a key it is about to remove carried an expiration below
\* the clock read at the start, and removeItem leaves the key without
\* entry whatever the key holds by then, be it the value read or one
\* another tab has stored since.
NonAtomicEviction ==
  [][sweep.pc = "remove" =>
        /\ sweep.value.t = "str"
        /\ ~CarriesNoPastExpiration(sweep.value.s, sweep.t)
        /\ sweep'.pc = "loop" => sweep.key \notin DOMAIN Area']_vars

\* removeItem has removed an envelope of the other tab, not yet expired,
\* that was stored after expire() read the key
NonAtomicEvictionWitness ==
  /\ sweep.pc = "loop"
  /\ sweep.removed # Null
  /\ sweep.removed # sweep.value
  /\ IsEnvelope(sweep.removed.s)
  /\ ~IsExpiredEnvelope(sweep.removed.s, now)
  /\ GetProp(JSONParse(sweep.removed).v, DataName).v = Str(FreshValue)
  /\ sweep.key \notin DOMAIN Area

\* C21: right after an expire() on the WebStorage backend, another
\* expire() at the same clock reading leaves both storage areas exactly
\* as they are.
ExpireIdempotent ==
  (last.op = "expire" /\ WebBound) =>
    LET again == expireWebStorage(options, storage, now)
    IN again.st = storage /\ ~again.threw

\* an expire() has removed the expired entry of the latest set and kept
\* another entry of the area
ExpireIdempotentWitness ==
  /\ WebBound /\ last.op = "expire"
  /\ WrittenWithDuration /\ now > WrittenExpiration
  /\ written.key \notin DOMAIN Area
  /\ DOMAIN Area # {}

\* C22: a set(k, v, d) leaves every entry of another key in both storage
\* areas with its text and every cookie of another name as it is, and a
\* get of any other key gives after the set what it gave before.
SetChangesOnlyItsKey ==
  [][last'.op = "set" =>
        /\ \A a \in AreaNames : \A k \in DOMAIN storage[a] \ {last'.key} :
             k \in DOMAIN storage'[a] /\ storage'[a][k] = storage[a][k]
        /\ \A i \in 1..Len(cookieJar) :
             cookieJar[i].name # last'.key
               => \E j \in 1..Len(cookieJar') : cookieJar'[j] = cookieJar[i]
        /\ \A k \in (Keys \cup CookieKeys) \ {last'.key} :
             /\ getCookie(cookieJar', k, now) = getCookie(cookieJar, k, now)
             /\ getWebStorage(options, storage', k) = getWebStorage(options, storage, k)]_vars

\* What set does for a key without "=": only the entry or cookie of that
\* key changes, and a get of another key without "=" gives what it gave.
SetPlainKeyChangesOnlyItsKey ==
  [][(last'.op = "set" /\ IndexOf(last'.key, "=", 1) = 0) =>
        /\ \A a \in AreaNames : \A k \in DOMAIN storage[a] \ {last'.key} :
             k \in DOMAIN storage'[a] /\ storage'[a][k] = storage[a][k]
        /\ \A i \in 1..Len(cookieJar) :
             cookieJar[i].name # last'.key
               => \E j \in 1..Len(cookieJar') : cookieJar'[j] = cookieJar[i]
        /\ \A k \in (Keys \cup CookieKeys) \ {last'.key} :
             IndexOf(k, "=", 1) = 0 =>
             /\ getCookie(cookieJar', k, now) = getCookie(cookieJar, k, now)
             /\ getWebStorage(options, storage', k) = getWebStorage(options, storage, k)]_vars

\* C23: after the same set(k, v) calls without duration, from empty
\* storage areas and an empty cookie jar, a get(k) returns the same on the
\* WebStorage-bound and on the cookie-bound instance, null for a key never
\* set included.
BackendsObservationallyEquivalent ==
  last.op = "get" => last.ret = last.other

\* What the two backends agree on: a key never set gives null on both,
\* and a key last set to a value without ";" gives that value on both.
BackendsAgreeWithoutSemicolon ==
  last.op = "get" =>
    LET stored == GetItem(storage[getWebStorageMechanism(options)], last.key)
    IN /\ stored = Null => (last.ret = Null /\ last.other = Null)
       /\ (last.ret.t = "str" /\ IndexOf(last.ret.s, ";", 1) = 0)
            => last.other = last.ret

\* both instances have returned the value with a quote and a backslash
\* for one key and null for the other
BackendsAgreeWitness ==
  /\ last.op = "get"
  /\ last.ret = Str(<<"\"", "\\">>)
  /\ last.other = last.ret
  /\ \E k \in Keys : getCookie(cookieJar, k, now) = Null

====
